---- MODULE Spec2Model ----
(***************************************************************************)
(* Model of lib/panino/plugins/parsers/jsd_parser.js: parse_javascript and *)
(* process_jsd, the assembly of merged docsets into the keyed node map.    *)
(*                                                                         *)
(* JavaScript strings are sequences of one-character strings, so that      *)
(* join, indexOf, lastIndexOf, split, substr and the regular expressions   *)
(* of the source are computed and not assumed.  An optional value is       *)
(* Undefined (the empty tuple) or Def(v) (a one-element tuple).  A         *)
(* JavaScript object used as a map is a sequence of [key, val] entries     *)
(* with unique keys, in insertion order.                                   *)
(***************************************************************************)
EXTENDS Integers, Sequences, FiniteSets, TLC

\* ---------------------------------------------------------------- bounds
MaxDocsets == 3
MaxParams == 2
MaxFiles == 2

\* ------------------------------------------------------- optional values
Undefined == <<>>
Def(v) == <<v>>
IsDef(o) == o # <<>>
Val(o) == o[1]

\* a string option is truthy when it is defined and not the empty string
Truthy(o) == IsDef(o) /\ Val(o) # <<>>

\* ------------------------------------------------------------- strings
\* Array.prototype.join renders undefined as the empty string
JoinStr(o) == IF IsDef(o) THEN Val(o) ELSE <<>>

\* String.prototype.indexOf for a one-character needle: 0-based, -1 if none
IndexOf(s, c) ==
  IF \E k \in 1..Len(s) : s[k] = c
  THEN (CHOOSE k \in 1..Len(s) : s[k] = c /\ \A j \in 1..(k-1) : s[j] # c) - 1
  ELSE -1

\* String.prototype.lastIndexOf for a one-character needle
LastIndexOf(s, c) ==
  IF \E k \in 1..Len(s) : s[k] = c
  THEN (CHOOSE k \in 1..Len(s) : s[k] = c /\ \A j \in (k+1)..Len(s) : s[j] # c) - 1
  ELSE -1

\* String.prototype.substr(start, length): length <= 0 gives ""
Substr(s, start, length) ==
  LET last == IF start + length > Len(s) THEN Len(s) ELSE start + length
  IN IF length <= 0 \/ start >= Len(s) THEN <<>> ELSE SubSeq(s, start + 1, last)

\* String.prototype.split for a one-character separator
RECURSIVE Split(_, _)
Split(s, c) ==
  LET k == IndexOf(s, c)
  IN IF k < 0 THEN <<s>>
     ELSE <<SubSeq(s, 1, k)>> \o Split(SubSeq(s, k + 2, Len(s)), c)

RECURSIVE TrimLeft(_)
TrimLeft(s) == IF s # <<>> /\ Head(s) = " " THEN TrimLeft(Tail(s)) ELSE s

RECURSIVE TrimRight(_)
TrimRight(s) ==
  IF s # <<>> /\ s[Len(s)] = " " THEN TrimRight(SubSeq(s, 1, Len(s) - 1)) ELSE s

\* trim: str.replace(/^ +| +$/g, '')
trim(str) == TrimRight(TrimLeft(str))

LowerCase(c) ==
  CASE c = "T" -> "t" [] c = "O" -> "o" [] c = "D" -> "d" [] OTHER -> c

\* /^@todo/i.test(doc)
TodoTest(doc) ==
  /\ Len(doc) >= 5
  /\ [k \in 1..5 |-> LowerCase(doc[k])] = <<"@", "t", "o", "d", "o">>

\* description.replace(/\n\n[\s\S]*$/, '\n')
ShortDescription(d) ==
  LET hits == {k \in 1..(Len(d) - 1) : d[k] = "\n" /\ d[k + 1] = "\n"}
  IN IF hits = {} THEN d
     ELSE LET k == CHOOSE h \in hits : \A g \in hits : h <= g
          IN SubSeq(d, 1, k - 1) \o <<"\n">>

\* id.replace(/(.+)\.(.+)$/, '$1#$2'): the greedy first group takes the last
\* "." that still leaves one character on each side
BoundId(id) ==
  LET hits == {k \in 2..(Len(id) - 1) : id[k] = "."}
  IN IF hits = {} THEN id
     ELSE LET k == CHOOSE h \in hits : \A g \in hits : g <= h
          IN [id EXCEPT ![k] = "#"]

\* ---------------------------------------------------------------- maps
HasKey(m, k) == \E j \in 1..Len(m) : m[j].key = k
Get(m, k) == m[CHOOSE j \in 1..Len(m) : m[j].key = k].val
\* obj[k] = v: an existing key keeps its position
Put(m, k, v) ==
  IF HasKey(m, k)
  THEN [j \in 1..Len(m) |-> IF m[j].key = k THEN [key |-> k, val |-> v] ELSE m[j]]
  ELSE Append(m, [key |-> k, val |-> v])
Vals(m) == {m[j].val : j \in 1..Len(m)}

\* ------------------------------------------------------------ docsets
\* A merged docset, as Merger.merge returns it.  The pass-through fields
\* private, experimental, chainable, see, author, version, since, inherits,
\* allowchild, define, cancelable and bubbles are absent from every docset
\* drawn here and are left out of the records.
Docset(tagname, name, doc, inheritdoc) ==
  [tagname |-> tagname, name |-> name, doc |-> doc, inheritdoc |-> inheritdoc,
   bound |-> Undefined, params |-> Undefined, return |-> Undefined,
   type |-> Undefined, linenr |-> 0]

Foo == <<"F", "o", "o">>
Baz == <<"B", "a", "z">>
bar == <<"b", "a", "r">>
change == <<"c", "h", "a", "n", "g", "e">>
len == <<"l", "e", "n">>
NS == <<"N", "S">>
Text == <<"t", "e", "x", "t">>
TodoText == <<"@", "T", "o", "D", "O", " ", "x">>
Src == Def([src |-> <<"O", "#", "m">>])

ClassChoices ==
  { Docset("class", Foo, Def(Text), Undefined),
    Docset("class", Baz, Def(Text), Undefined),
    Docset("class", Baz, Def(TodoText), Undefined) }

MemberChoices ==
  { Docset("method", bar, Def(Text), Undefined),
    Docset("method", <<>>, Def(Text), Undefined),
    Docset("method", bar, Def(TodoText), Undefined),
    Docset("method", bar, Undefined, Undefined),
    Docset("method", <<>>, Undefined, Src),
    Docset("event", change, Def(Text), Undefined),
    Docset("event", <<>>, Def(Text), Undefined),
    [Docset("property", len, Def(Text), Undefined) EXCEPT !.type = Def(<<"N">>)],
    Docset("cfg", len, Def(Text), Undefined),
    [Docset("method", bar, Def(Text), Undefined) EXCEPT !.bound = Def(TRUE)] }

DocsetChoices == ClassChoices \cup MemberChoices

\* linenr: the docsets of a file come in source order
Numbered(l) == [k \in 1..Len(l) |-> [l[k] EXCEPT !.linenr = k]]

\* options.globalNS: absent, the empty string, or a namespace
GlobalNSChoices == {Undefined, Def(<<>>), Def(NS)}

\* parameter and return type strings
ParamTypes ==
  { <<"s">>, <<"s", "|", "n">>, <<"s", " ", "|", " ", "n">>, <<"s", ",", "n">> }
RetTypes == { <<"s">>, <<"[", "s", "]">>, <<"[", "s">>, <<"s", "]">> }

Param(t) == [name |-> <<"p">>, type |-> t, doc |-> Text, optional |-> FALSE]

Params(l) == [k \in 1..Len(l) |-> Param(l[k])]

ReturnChoices ==
  {Undefined} \cup {Def([type |-> x, description |-> Text]) : x \in RetTypes}

\* -------------------------------------------------------------- nodes
\* createBasicTranslation (lines 293-334).  It never copies the docset's
\* bound flag: bound, like the fields set later, starts absent.
createBasicTranslation(memberName, type, i) ==
  [id |-> memberName,
   type |-> type,
   inheritdoc |-> IF IsDef(i.inheritdoc) THEN Def(Val(i.inheritdoc).src) ELSE Undefined,
   description |-> IF IsDef(i.inheritdoc) THEN Undefined ELSE Def(Val(i.doc)),
   short_description |->
     IF IsDef(i.inheritdoc) THEN Undefined ELSE Def(ShortDescription(Val(i.doc))),
   line |-> i.linenr,
   bound |-> Undefined,
   section |-> Undefined,
   arguments |-> Undefined,
   signatures |-> Undefined,
   aliases |-> Undefined,
   children |-> Undefined,
   subclasses |-> Undefined,
   file |-> Undefined]

\* lines 82-98: every class docset with a doc sets classPrefix, stores a class
\* node and is rejected from the list
IsClassDocset(i) == i.tagname = "class" /\ IsDef(i.doc)

\* variant: the reject stops taking classes after the first one
RECURSIVE GrabClass_FirstOnly(_, _, _, _)
GrabClass_FirstOnly(ms, k, cp, ns) ==
  IF k > Len(ms) THEN [classPrefix |-> cp, nodes |-> ns]
  ELSE IF IsClassDocset(ms[k]) /\ ~IsDef(cp)
       THEN GrabClass_FirstOnly(ms, k + 1, Def(ms[k].name),
                                Put(ns, ms[k].name,
                                    createBasicTranslation(ms[k].name, "class", ms[k])))
       ELSE GrabClass_FirstOnly(ms, k + 1, cp, ns)

RECURSIVE GrabClass(_, _, _, _)
GrabClass(ms, k, cp, ns) ==
  IF k > Len(ms) THEN [classPrefix |-> cp, nodes |-> ns]
  ELSE IF IsClassDocset(ms[k])
       THEN GrabClass(ms, k + 1, Def(ms[k].name),
                      Put(ns, ms[k].name,
                          createBasicTranslation(ms[k].name, "class", ms[k])))
       ELSE GrabClass(ms, k + 1, cp, ns)

RejectClasses(ms) == SelectSeq(ms, LAMBDA i : ~IsClassDocset(i))

\* lines 102-110
KeepDocset(i) ==
  \/ IsDef(i.doc) /\ ~TodoTest(Val(i.doc))
  \/ IsDef(i.inheritdoc)

FilterDocs(ms) == SelectSeq(ms, KeepDocset)

\* lines 113-122: the prefix and the join character of one member
UsesGlobalNS(cp, globalNS) == ~IsDef(cp) /\ Truthy(globalNS)

NextPrefix(cp, globalNS) == IF UsesGlobalNS(cp, globalNS) THEN globalNS ELSE cp

JoinChar(i, cp, globalNS) ==
  IF ~UsesGlobalNS(cp, globalNS) /\ ~IsDef(globalNS) THEN <<>>
  ELSE IF i.tagname = "event" THEN <<"@">> ELSE <<".">>

MemberName(i, cp, globalNS) ==
  JoinStr(NextPrefix(cp, globalNS)) \o JoinChar(i, cp, globalNS) \o i.name

\* line 123
IsFatalName(i, memberName) ==
  /\ LastIndexOf(memberName, ".") = Len(memberName) - 1
  /\ ~IsDef(i.inheritdoc)

\* lines 144-162
ArgTypes(t) ==
  IF IndexOf(t, "|") >= 0
  THEN LET parts == Split(t, "|") IN [k \in 1..Len(parts) |-> trim(parts[k])]
  ELSE IF IndexOf(t, ",") >= 0 THEN <<>>
  ELSE <<t>>

WarnsComma(t) == IndexOf(t, "|") < 0 /\ IndexOf(t, ",") >= 0

Argument(p) ==
  [name |-> p.name, description |-> p.doc, types |-> ArgTypes(p.type),
   optional |-> p.optional]

\* line 134: var ret = {}; isArray is TRUE when set and FALSE when absent
NoReturn == [type |-> Undefined, isArray |-> FALSE, description |-> Undefined]

\* lines 171-180
ReturnOf(i) ==
  IF ~IsDef(i.return)
  THEN NoReturn
  ELSE LET r == Val(i.return)
       IN IF IndexOf(r.type, "[") = 0
          THEN [type |-> Def(Substr(r.type, 1, Len(r.type) - 2)), isArray |-> TRUE,
                description |-> Def(r.description)]
          ELSE [type |-> Def(r.type), isArray |-> FALSE,
                description |-> Def(r.description)]

\* lines 131-214: the node a named docset gives, if any
MemberNode(i, memberName) ==
  IF i.tagname \in {"method", "event"}
  THEN LET args == IF IsDef(i.params)
                   THEN Def([k \in 1..Len(Val(i.params)) |-> Argument(Val(i.params)[k])])
                   ELSE Undefined
       IN Def([createBasicTranslation(memberName, i.tagname, i) EXCEPT
                 !.arguments = args,
                 !.signatures = Def(<<[arguments |-> args, return |-> ReturnOf(i),
                                       returns |-> Undefined]>>)])
  ELSE IF i.tagname \in {"property", "attribute", "binding"}
  THEN Def([createBasicTranslation(memberName, i.tagname, i) EXCEPT
              !.signatures = Def(<<[arguments |-> Undefined,
                                    return |-> NoReturn,
                                    returns |-> Def(<<[type |-> i.type]>>)]>>)])
  ELSE Undefined

MemberWarnings(i) ==
  IF i.tagname \in {"method", "event"}
  THEN IF IsDef(i.params) /\ \E k \in 1..Len(Val(i.params)) : WarnsComma(Val(i.params)[k].type)
       THEN {"comma"} ELSE {}
  ELSE IF i.tagname \in {"property", "attribute", "binding"} THEN {}
  ELSE {"unknown"}

\* lines 218-257: the pass over the nodes that fills the list
ListKey(node, id) == JoinStr(node.section) \o <<".">> \o id

Stamped(node, file) ==
  [node EXCEPT !.aliases = Def(<<>>), !.children = Def(<<>>), !.file = Def(file),
               !.subclasses = IF node.type = "class" THEN Def(<<>>) ELSE @]

IsBoundMethod(node) == node.type = "method" /\ Truthy(node.bound)

RECURSIVE Distribute(_, _, _, _)
Distribute(ns, k, file, acc) ==
  IF k > Len(ns) THEN acc
  ELSE LET node == Stamped(ns[k].val, file)
       IN IF node.type = "section"
          THEN Distribute(ns, k + 1, file, Put(acc, node.id, node))
          ELSE IF IsBoundMethod(node)
          THEN LET cloneId == BoundId(node.id)
                   orig == [node EXCEPT !.bound = Def(cloneId)]
                   clone == [node EXCEPT !.id = cloneId, !.bound = Def(node.id)]
               IN Distribute(ns, k + 1, file,
                             Put(Put(acc, ListKey(node, node.id), orig),
                                 ListKey(node, cloneId), clone))
          ELSE Distribute(ns, k + 1, file, Put(acc, ListKey(node, node.id), node))

\* --------------------------------------------------------------- state
VARIABLES
  files,          \* the files parse_javascript was invoked for
  options,        \* the options object of the run
  docsets,        \* per file: the docsets its source text expands to
  pc,             \* per file: position of the invocation
  running,        \* the invocation on the JavaScript stack, 0 when idle
  doc_ast,        \* the module-level tracker (line 36)
  cursor,         \* per file: index of the loop in progress
  merged,         \* per file: the merged docsets
  mergeLog,       \* per file: tracker and line number of each merge call
  remainingNodes, \* per file
  classPrefix,    \* per file
  nodes,          \* per file
  list,           \* per file
  warnings,       \* per file: kinds of console.warn issued
  calls,          \* per file: the invocations of the completion callback
  exited          \* process.exit(1) was called

vars == <<files, options, docsets, pc, running, doc_ast, cursor, merged, mergeLog,
          remainingNodes, classPrefix, nodes, list, warnings, calls, exited>>

NoTracker == [owner |-> 0, linenr |-> 0]

InitFor(fs) ==
  /\ files = fs
  /\ pc = [f \in fs |-> "reading"]
  /\ running = 0
  /\ doc_ast = NoTracker
  /\ cursor = [f \in fs |-> 0]
  /\ merged = [f \in fs |-> <<>>]
  /\ mergeLog = [f \in fs |-> <<>>]
  /\ remainingNodes = [f \in fs |-> <<>>]
  /\ classPrefix = [f \in fs |-> Undefined]
  /\ nodes = [f \in fs |-> <<>>]
  /\ list = [f \in fs |-> <<>>]
  /\ warnings = [f \in fs |-> {}]
  /\ calls = [f \in fs |-> <<>>]
  /\ exited = FALSE

\* one file, any list of docsets
Init ==
  /\ InitFor({1})
  /\ options \in [globalNS : GlobalNSChoices]
  /\ \E n \in 0..MaxDocsets :
       \E l \in [1..n -> DocsetChoices] : docsets = [f \in {1} |-> Numbered(l)]

\* one file: a class and one method or event with parameters and a return
InitSig ==
  /\ InitFor({1})
  /\ options \in [globalNS : GlobalNSChoices]
  /\ \E t \in {"method", "event"}, name \in {bar, <<>>}, r \in ReturnChoices :
       \E p \in {Undefined} \cup
                 UNION { {Def(Params(l)) : l \in [1..n -> ParamTypes]} : n \in 0..MaxParams } :
         docsets = [f \in {1} |->
                      Numbered(<<Docset("class", Foo, Def(Text), Undefined),
                                 [Docset(t, name, Def(Text), Undefined)
                                    EXCEPT !.params = p, !.return = r]>>)]

\* several files read at once
ConcLists ==
  { <<>>,
    Numbered(<<Docset("class", Foo, Def(Text), Undefined),
               Docset("method", bar, Def(Text), Undefined)>>),
    Numbered(<<Docset("event", change, Def(Text), Undefined)>>),
    Numbered(<<Docset("class", Baz, Def(Text), Undefined),
               Docset("method", <<>>, Def(Text), Undefined)>>) }

InitConc ==
  /\ InitFor(1..MaxFiles)
  /\ options \in [globalNS : {Undefined, Def(NS)}]
  /\ docsets \in [1..MaxFiles -> ConcLists]

\* ------------------------------------------------------------ scheduling
\* variant: the merge of a docset is asynchronous too
Yields_InMerge(p) == p \in {"reading", "merging"}

\* The positions at which an invocation has returned to the event loop:
\* only the pending fs.readFile (lines 41-47); process_jsd has no
\* asynchronous call.
Yields(p) == p = "reading"

CanRun(f) == ~exited /\ (running = f \/ (running = 0 /\ Yields(pc[f])))

Goto(f, p) ==
  /\ pc' = [pc EXCEPT ![f] = p]
  /\ running' = IF Yields(p) \/ p = "done" THEN 0 ELSE f

ErrorCall(err) == [nargs |-> 1, err |-> err, map |-> <<>>]
ResultCall(map) == [nargs |-> 2, err |-> "null", map |-> map]

\* ------------------------------------------------------------- actions
\* lines 41-45: the read failed
ReadErr(f) ==
  /\ CanRun(f) /\ pc[f] = "reading"
  /\ calls' = [calls EXCEPT ![f] = Append(@, ErrorCall("read"))]
  /\ Goto(f, "done")
  /\ UNCHANGED <<files, options, docsets, doc_ast, cursor, merged, mergeLog,
                 remainingNodes, classPrefix, nodes, list, warnings, exited>>

\* lines 41, 46, 51-52: the read succeeded, process_jsd creates the tracker
ReadOk(f) ==
  /\ CanRun(f) /\ pc[f] = "reading"
  /\ doc_ast' = [owner |-> f, linenr |-> 0]
  /\ Goto(f, "entered")
  /\ UNCHANGED <<files, options, docsets, cursor, merged, mergeLog,
                 remainingNodes, classPrefix, nodes, list, warnings, calls, exited>>

\* variant: the catch block calls back and falls through (no return)
ParseFail_NoReturn(f) ==
  /\ CanRun(f) /\ pc[f] = "entered"
  /\ calls' = [calls EXCEPT ![f] = Append(@, ErrorCall("parse"))]
  /\ Goto(f, "merged")
  /\ UNCHANGED <<files, options, docsets, doc_ast, cursor, merged, mergeLog,
                 remainingNodes, classPrefix, nodes, list, warnings, exited>>

\* lines 56-60 throw, lines 67-71
ParseFail(f) ==
  /\ CanRun(f) /\ pc[f] = "entered"
  /\ calls' = [calls EXCEPT ![f] = Append(@, ErrorCall("parse"))]
  /\ Goto(f, "done")
  /\ UNCHANGED <<files, options, docsets, doc_ast, cursor, merged, mergeLog,
                 remainingNodes, classPrefix, nodes, list, warnings, exited>>

\* lines 56-63: the docsets are parsed, detected and expanded
ParseOk(f) ==
  /\ CanRun(f) /\ pc[f] = "entered"
  /\ cursor' = [cursor EXCEPT ![f] = 1]
  /\ Goto(f, IF docsets[f] = <<>> THEN "merged" ELSE "merging")
  /\ UNCHANGED <<files, options, docsets, doc_ast, merged, mergeLog,
                 remainingNodes, classPrefix, nodes, list, warnings, calls, exited>>

\* lines 63-65, 285-290: merge of one docset
merge(f) ==
  /\ CanRun(f) /\ pc[f] = "merging"
  /\ LET i == docsets[f][cursor[f]]
     IN /\ doc_ast' = [doc_ast EXCEPT !.linenr = i.linenr]
        /\ mergeLog' = [mergeLog EXCEPT
                          ![f] = Append(@, [tracker |-> doc_ast.owner, linenr |-> i.linenr])]
        /\ merged' = [merged EXCEPT ![f] = Append(@, i)]
  /\ cursor' = [cursor EXCEPT ![f] = @ + 1]
  /\ Goto(f, IF cursor[f] = Len(docsets[f]) THEN "merged" ELSE "merging")
  /\ UNCHANGED <<files, options, docsets, remainingNodes, classPrefix, nodes, list,
                 warnings, calls, exited>>

\* doc_ast.detect or Merger.merge throws, lines 67-71
MergeFail(f) ==
  /\ CanRun(f) /\ pc[f] = "merging"
  /\ calls' = [calls EXCEPT ![f] = Append(@, ErrorCall("merge"))]
  /\ Goto(f, "done")
  /\ UNCHANGED <<files, options, docsets, doc_ast, cursor, merged, mergeLog,
                 remainingNodes, classPrefix, nodes, list, warnings, exited>>

\* lines 82-98
GrabClassName(f) ==
  /\ CanRun(f) /\ pc[f] = "merged"
  /\ LET g == GrabClass(merged[f], 1, Undefined, <<>>)
     IN /\ classPrefix' = [classPrefix EXCEPT ![f] = g.classPrefix]
        /\ nodes' = [nodes EXCEPT ![f] = g.nodes]
  /\ remainingNodes' = [remainingNodes EXCEPT ![f] = RejectClasses(merged[f])]
  /\ Goto(f, "grabbed")
  /\ UNCHANGED <<files, options, docsets, doc_ast, cursor, merged, mergeLog, list,
                 warnings, calls, exited>>

\* lines 102-110
RemoveUndocumented(f) ==
  /\ CanRun(f) /\ pc[f] = "grabbed"
  /\ remainingNodes' = [remainingNodes EXCEPT ![f] = FilterDocs(@)]
  /\ cursor' = [cursor EXCEPT ![f] = 1]
  /\ Goto(f, IF FilterDocs(remainingNodes[f]) = <<>> THEN "assembled" ELSE "naming")
  /\ UNCHANGED <<files, options, docsets, doc_ast, merged, mergeLog, classPrefix,
                 nodes, list, warnings, calls, exited>>

\* lines 112-215, one docset of the loop, name accepted
AssembleMember(f) ==
  /\ CanRun(f) /\ pc[f] = "naming"
  /\ LET i == remainingNodes[f][cursor[f]]
         memberName == MemberName(i, classPrefix[f], options.globalNS)
         node == MemberNode(i, memberName)
         last == cursor[f] = Len(remainingNodes[f])
     IN /\ ~IsFatalName(i, memberName)
        /\ classPrefix' = [classPrefix EXCEPT ![f] = NextPrefix(@, options.globalNS)]
        /\ nodes' = [nodes EXCEPT
                       ![f] = IF IsDef(node) THEN Put(@, memberName, Val(node)) ELSE @]
        /\ warnings' = [warnings EXCEPT ![f] = @ \cup MemberWarnings(i)]
        /\ remainingNodes' = [remainingNodes EXCEPT ![f] = IF last THEN <<>> ELSE @]
        /\ Goto(f, IF last THEN "assembled" ELSE "naming")
  /\ cursor' = [cursor EXCEPT ![f] = @ + 1]
  /\ UNCHANGED <<files, options, docsets, doc_ast, merged, mergeLog, list, calls, exited>>

\* lines 113-129: the name is rejected, process.exit(1)
FatalName(f) ==
  /\ CanRun(f) /\ pc[f] = "naming"
  /\ LET i == remainingNodes[f][cursor[f]]
     IN /\ IsFatalName(i, MemberName(i, classPrefix[f], options.globalNS))
        /\ classPrefix' = [classPrefix EXCEPT ![f] = NextPrefix(@, options.globalNS)]
  /\ exited' = TRUE
  /\ pc' = [pc EXCEPT ![f] = "exited"]
  /\ UNCHANGED <<files, options, docsets, running, doc_ast, cursor, merged, mergeLog,
                 remainingNodes, nodes, list, warnings, calls>>

\* lines 218-257
PreDistribute(f) ==
  /\ CanRun(f) /\ pc[f] = "assembled"
  /\ list' = [list EXCEPT ![f] = Distribute(nodes[f], 1, f, <<>>)]
  /\ nodes' = [nodes EXCEPT
                 ![f] = [k \in 1..Len(@) |->
                           [key |-> @[k].key,
                            val |-> LET n == Stamped(@[k].val, f)
                                    IN IF IsBoundMethod(n)
                                       THEN [n EXCEPT !.bound = Def(BoundId(n.id))]
                                       ELSE n]]]
  /\ Goto(f, "distributed")
  /\ UNCHANGED <<files, options, docsets, doc_ast, cursor, merged, mergeLog,
                 remainingNodes, classPrefix, warnings, calls, exited>>

\* line 270
Deliver(f) ==
  /\ CanRun(f) /\ pc[f] = "distributed"
  /\ calls' = [calls EXCEPT ![f] = Append(@, ResultCall(list[f]))]
  /\ Goto(f, "done")
  /\ UNCHANGED <<files, options, docsets, doc_ast, cursor, merged, mergeLog,
                 remainingNodes, classPrefix, nodes, list, warnings, exited>>

Next ==
  \E f \in files :
    \/ ReadErr(f)
    \/ ReadOk(f)
    \/ ParseFail(f)
    \/ ParseOk(f)
    \/ merge(f)
    \/ MergeFail(f)
    \/ GrabClassName(f)
    \/ RemoveUndocumented(f)
    \/ AssembleMember(f)
    \/ FatalName(f)
    \/ PreDistribute(f)
    \/ Deliver(f)

Spec == Init /\ [][Next]_vars
SpecSig == InitSig /\ [][Next]_vars
SpecConc == InitConc /\ [][Next]_vars

\* ------------------------------------------------------------ properties
StartsWith(s, p) == Len(s) >= Len(p) /\ SubSeq(s, 1, Len(p)) = p
EndsWith(s, p) == Len(s) >= Len(p) /\ SubSeq(s, Len(s) - Len(p) + 1, Len(s)) = p

\* the callback of f received (null, map)
Delivered(f) ==
  /\ pc[f] = "done"
  /\ calls[f] # <<>>
  /\ calls[f][Len(calls[f])].err = "null"
DeliveredMap(f) == calls[f][Len(calls[f])].map

ClassIndexes(f) == {k \in 1..Len(merged[f]) : IsClassDocset(merged[f][k])}
MemberIndexes(f) ==
  {k \in 1..Len(merged[f]) : ~IsClassDocset(merged[f][k]) /\ KeepDocset(merged[f][k])}
FirstClass(f) == merged[f][CHOOSE k \in ClassIndexes(f) : \A j \in ClassIndexes(f) : k <= j]
LastClass(f) == merged[f][CHOOSE k \in ClassIndexes(f) : \A j \in ClassIndexes(f) : j <= k]
KnownKinds == {"method", "event", "property", "attribute", "binding"}
JoinOf(kind) == IF kind = "event" THEN <<"@">> ELSE <<".">>

\* C1: with exactly one class docset with a description, named C, the
\* delivered map holds a class node with id C and, for every surviving member
\* docset of a known kind named n, a node of that kind with id C@n for an
\* event and C.n otherwise (members with a name, as in Foo.bar and Foo@change).
C1_ClassAndMemberIds ==
  \A f \in files :
    (/\ Delivered(f)
     /\ Cardinality(ClassIndexes(f)) = 1
     /\ \A k \in MemberIndexes(f) : merged[f][k].name # <<>>) =>
      LET C == FirstClass(f).name
          map == Vals(DeliveredMap(f))
      IN /\ \E n \in map : n.type = "class" /\ n.id = C
         /\ \A k \in MemberIndexes(f) :
              LET i == merged[f][k]
              IN i.tagname \in KnownKinds =>
                   \E n \in map : n.type = i.tagname
                                  /\ n.id = C \o JoinOf(i.tagname) \o i.name

C3_NoJoinCharTail ==
  \A f \in files :
    (Delivered(f) /\ Truthy(options.globalNS)) =>
      \A n \in Vals(DeliveredMap(f)) :
        (n.type # "class" /\ ~IsDef(n.inheritdoc)) => ~EndsWith(n.id, JoinOf(n.type))

\* C4: a surviving method docset flagged bound, under an owner joined with
\* ".", gives two nodes in the delivered map under distinct keys: the original
\* Owner.name and a clone Owner#name, identical except for id and bound, each
\* one's bound field holding the other's id.
C4_BoundTwoNodes ==
  \A f \in files :
    (Delivered(f) /\ ClassIndexes(f) # {} /\ Truthy(options.globalNS)) =>
      \A k \in MemberIndexes(f) :
        LET i == merged[f][k]
        IN (i.tagname = "method" /\ IsDef(i.bound) /\ i.name # <<>>) =>
             \E a, b \in 1..Len(DeliveredMap(f)) :
               LET o == DeliveredMap(f)[a]
                   c == DeliveredMap(f)[b]
               IN /\ o.key # c.key
                  /\ o.val.id = JoinStr(classPrefix[f]) \o <<".">> \o i.name
                  /\ c.val.id = JoinStr(classPrefix[f]) \o <<"#">> \o i.name
                  /\ o.val.bound = Def(c.val.id)
                  /\ c.val.bound = Def(o.val.id)
                  /\ [o.val EXCEPT !.id = <<>>, !.bound = Undefined]
                       = [c.val EXCEPT !.id = <<>>, !.bound = Undefined]

\* C5: without a class docset with a description, a surviving named member
\* of a known kind other than event gets the id globalNS.name when globalNS is
\* configured and exactly its name when globalNS is absent or empty, and the
\* fatal naming path is then taken only for an empty name.
C5_NamespaceFallback ==
  \A f \in files :
    ClassIndexes(f) = {} =>
      /\ Delivered(f) =>
           \A k \in MemberIndexes(f) :
             LET i == merged[f][k]
             IN (i.tagname \in KnownKinds \ {"event"} /\ i.name # <<>>) =>
                  \E n \in Vals(DeliveredMap(f)) :
                    n.id = IF Truthy(options.globalNS)
                           THEN Val(options.globalNS) \o <<".">> \o i.name
                           ELSE i.name
      /\ pc[f] = "exited" => remainingNodes[f][cursor[f]].name = <<>>

\* C6: an invocation that does not take the fatal naming path calls the
\* completion callback exactly once when it finishes and never before, with
\* the error as sole argument and no map after a failed read, parse or merge,
\* and with (null, list) otherwise.
C6_CallbackOnce ==
  \A f \in files :
    /\ Len(calls[f]) = IF pc[f] = "done" THEN 1 ELSE 0
    /\ \A k \in 1..Len(calls[f]) :
         LET c == calls[f][k]
         IN \/ c.nargs = 1 /\ c.err \in {"read", "parse", "merge"} /\ c.map = <<>>
                /\ list[f] = <<>>
            \/ c.nargs = 2 /\ c.err = "null" /\ c.map = list[f]
                /\ Len(merged[f]) = Len(docsets[f])

C6_Witness ==
  \E f \in files :
    /\ Delivered(f)
    /\ Len(calls[f]) = 1
    /\ Len(DeliveredMap(f)) >= 2

\* C7: a docset of any kind whose description starts with "@todo" in any
\* letter case and that has no inheritdoc gives no node in the delivered map,
\* and filtering the filtered list again changes nothing.
C7_TodoDropped ==
  \A f \in files :
    /\ Delivered(f) =>
         \A k \in 1..Len(merged[f]) :
           LET i == merged[f][k]
           IN (IsDef(i.doc) /\ TodoTest(Val(i.doc)) /\ ~IsDef(i.inheritdoc)) =>
                ~\E n \in Vals(DeliveredMap(f)) : n.line = i.linenr
    /\ pc[f] = "naming" => FilterDocs(remainingNodes[f]) = remainingNodes[f]

\* the node of the delivered map made from the docset at line k
NodesOfLine(f, k) == {n \in Vals(DeliveredMap(f)) : n.line = k}

\* C8: every argument of a delivered, named method or event node has at least one
\* type: one trimmed entry per alternative of a pipe-separated type string,
\* one compound entry and a warning for a comma-separated one, the string
\* itself otherwise.
C8_ArgumentTypes ==
  \A f \in files :
    Delivered(f) =>
      \A k \in MemberIndexes(f) :
        LET i == merged[f][k]
        IN (i.tagname \in {"method", "event"} /\ IsDef(i.params) /\ i.name # <<>>) =>
             \A n \in NodesOfLine(f, k) :
               /\ IsDef(n.arguments)
               /\ Len(Val(n.arguments)) = Len(Val(i.params))
               /\ \A a \in 1..Len(Val(i.params)) :
                    LET t == Val(i.params)[a].type
                        types == Val(n.arguments)[a].types
                    IN /\ Len(types) >= 1
                       /\ IndexOf(t, "|") >= 0 =>
                            /\ Len(types) = Len(Split(t, "|"))
                            /\ \A j \in 1..Len(types) :
                                 /\ types[j] # <<>>
                                 /\ " " \notin {types[j][x] : x \in 1..Len(types[j])}
                       /\ (IndexOf(t, "|") < 0 /\ IndexOf(t, ",") >= 0) =>
                            Len(types) = 1 /\ "comma" \in warnings[f]
                       /\ (IndexOf(t, "|") < 0 /\ IndexOf(t, ",") < 0) => types = <<t>>

\* C9: the return of a delivered, named method or event signature is an array with
\* the first and last character removed when the return-type string starts
\* with "[" and ends with "]", and is the unchanged string, not an array,
\* otherwise.
C9_ReturnType ==
  \A f \in files :
    Delivered(f) =>
      \A k \in MemberIndexes(f) :
        LET i == merged[f][k]
        IN (i.tagname \in {"method", "event"} /\ IsDef(i.return) /\ i.name # <<>>) =>
             \A n \in NodesOfLine(f, k) :
               LET t == Val(i.return).type
                   ret == Val(n.signatures)[1].return
               IN IF Len(t) >= 2 /\ t[1] = "[" /\ t[Len(t)] = "]"
                  THEN ret.isArray /\ ret.type = Def(SubSeq(t, 2, Len(t) - 1))
                  ELSE ~ret.isArray /\ ret.type = Def(t)

\* C10: from the creation of its tracker until its callback an invocation is
\* the only one running, so every merge call writes its line number to the
\* tracker its own invocation created.
C10_OwnTracker ==
  \A f \in files :
    /\ \A k \in 1..Len(mergeLog[f]) :
         /\ mergeLog[f][k].tracker = f
         /\ mergeLog[f][k].linenr = merged[f][k].linenr
    /\ pc[f] \in {"entered", "merging"} => doc_ast.owner = f
    /\ pc[f] = "merging" /\ cursor[f] > 1 => doc_ast.linenr = merged[f][cursor[f] - 1].linenr
    /\ pc[f] \in {"entered", "merging", "merged", "grabbed", "naming", "assembled",
                  "distributed"} =>
         /\ running = f
         /\ \A g \in files \ {f} : pc[g] \in {"reading", "done"}

C10_Witness ==
  \E f, g \in files :
    /\ f < g
    /\ pc[g] = "done" /\ mergeLog[g] # <<>>
    /\ pc[f] = "merging" /\ mergeLog[f] # <<>>

====
